---------------------------- MODULE Spec2Model ----------------------------
(***************************************************************************)
(* A model of bsql's clause-composition and placeholder-rewriting engine:  *)
(*   - replacePlaceholders (src/example/demo.go), one loop iteration per    *)
(*     step, and as a pure function used by the builders;                   *)
(*   - wherePart / WhereBuilder (src/unnamed/part_000);                     *)
(*   - InsertBuilder (src/statement_test.go, lines 49-278).                 *)
(* SQL text is a sequence of one-character strings.  Bound arguments are    *)
(* integers (opaque driver values).                                         *)
(***************************************************************************)
EXTENDS Integers, Sequences, FiniteSets, TLC

VARIABLES
    live,    \* which object this run exercises: "rewrite", "where" or "insert"
    rw,      \* the state of one replacePlaceholders call
    wb,      \* the WhereBuilder
    wcalls,  \* history: the mutator calls made on wb, in order
    wres,    \* the result of the last WhereBuilder.ToSql since the last mutator
    ib,      \* the InsertBuilder
    twin,    \* a second InsertBuilder that is given the same calls as ib
    icalls,  \* history: the last mutator call made on ib, and how many were made
    ires     \* the results of the last two InsertBuilder.ToSql calls since the last mutator

vars == <<live, rw, wb, wcalls, wres, ib, twin, icalls, ires>>

(***************************************************************************)
(* Bounds of the model.                                                    *)
(***************************************************************************)
MaxLen == 5        \* longest text given to a stepped replacePlaceholders call
MaxCalls == 3      \* most mutator calls made on the WhereBuilder
MaxInsCalls == 4   \* most mutator calls made on the InsertBuilder

(***************************************************************************)
(* Text helpers.                                                           *)
(***************************************************************************)
NoErr == "nil"

Marker == "?"

DigitChars == <<"0", "1", "2", "3", "4", "5", "6", "7", "8", "9">>

RECURSIVE FormatUint(_)
\* strconv.FormatUint(n, 10), and fmt's %d of a non-negative int
FormatUint(n) ==
    IF n < 10 THEN <<DigitChars[n + 1]>>
    ELSE FormatUint(n \div 10) \o <<DigitChars[(n % 10) + 1]>>

\* strings.Index(s, "?") + 1: the 1-based place of the first marker, 0 if none
Index(s) ==
    IF \E k \in 1..Len(s) : s[k] = Marker
    THEN CHOOSE k \in 1..Len(s) : s[k] = Marker /\ \A j \in 1..(k - 1) : s[j] # Marker
    ELSE 0

\* s[from:] of Go with a 1-based first place
From(s, from) == SubSeq(s, from, Len(s))

RECURSIVE Join(_, _)
\* strings.Join(names, sep)
Join(names, sep) ==
    IF names = <<>> THEN <<>>
    ELSE IF Len(names) = 1 THEN names[1]
    ELSE names[1] \o sep \o Join(Tail(names), sep)

RECURSIVE Flatten(_)
Flatten(ss) == IF ss = <<>> THEN <<>> ELSE ss[1] \o Flatten(Tail(ss))

Contains(t, s) ==
    \E k \in 1..(Len(t) - Len(s) + 1) : SubSeq(t, k, k + Len(s) - 1) = s

(***************************************************************************)
(* The placeholder rewriter.                                               *)
(***************************************************************************)
\* The emit callbacks: the two reference dialects, and callbacks that fail
\* at their first or second call.
EmitKinds == {"Question", "Dollar", "FailAt1", "FailAt2"}

Formats == {"Question", "Dollar"}

\* replace(buf, i): what the callback appends to buf, and its error
Emit(kind, buf, i) ==
    CASE kind = "Dollar"   -> [buf |-> buf \o <<"$">> \o FormatUint(i), err |-> NoErr]
      [] kind = "Question" -> [buf |-> buf \o <<Marker>>, err |-> NoErr]
      [] kind = "FailAt1"  -> [buf |-> buf, err |-> "emit failed"]
      [] OTHER             -> IF i >= 2 THEN [buf |-> buf, err |-> "emit failed"]
                              ELSE [buf |-> buf \o <<"$">> \o FormatUint(i), err |-> NoErr]

\* the state at the head of the loop, before its first iteration
LoopStart(kind, text) ==
    [text |-> text, emit |-> kind, sql |-> text, buf |-> <<>>, i |-> 0,
     pc |-> "loop", out |-> <<>>, err |-> NoErr,
     calls |-> <<>>, iters |-> 0, branch |-> "start"]

\* after the loop: buf.WriteString(sql); return buf.String(), nil
AfterLoop(st, b, branch) ==
    [st EXCEPT !.buf = b \o st.sql, !.out = b \o st.sql, !.pc = "done",
               !.branch = branch]

\* a scan that keeps both markers of a pair
EscapedPair_KeepsBoth(st, p) ==
    [st EXCEPT !.buf = (@ \o SubSeq(st.sql, 1, p - 1)) \o <<Marker, Marker>>,
               !.sql = From(st.sql, p + 2), !.iters = @ + 1, !.branch = "pair"]

\* a scan that moves past the first marker of a pair only
EscapedPair_AdvancesOne(st, p) ==
    [st EXCEPT !.buf = (@ \o SubSeq(st.sql, 1, p - 1)) \o <<Marker>>,
               !.sql = From(st.sql, p + 1), !.iters = @ + 1, !.branch = "pair"]

\* `??`: the pair is written as one marker and the scan moves past both
EscapedPair(st, p) ==
    LET b == (st.buf \o SubSeq(st.sql, 1, p - 1)) \o <<Marker>>
    IN  IF Len(From(st.sql, p)) = 1
        THEN AfterLoop([st EXCEPT !.iters = @ + 1], b, "pair-break")
        ELSE [st EXCEPT !.buf = b, !.sql = From(st.sql, p + 2),
                        !.iters = @ + 1, !.branch = "pair"]

\* a bound marker after replace(buf, i) has run: b is the buffer it was given,
\* e what it left; an error returns "", err
AfterEmit(st, p, b, e) ==
    IF e.err # NoErr
    THEN [st EXCEPT !.i = @ + 1, !.buf = e.buf, !.out = <<>>, !.err = e.err,
                    !.pc = "done", !.iters = @ + 1, !.branch = "error",
                    !.calls = Append(@, [idx |-> st.i + 1,
                                         tok |-> SubSeq(e.buf, Len(b) + 1, Len(e.buf))])]
    ELSE [st EXCEPT !.i = @ + 1, !.buf = e.buf, !.sql = From(st.sql, p + 1),
                    !.iters = @ + 1, !.branch = "marker",
                    !.calls = Append(@, [idx |-> st.i + 1,
                                         tok |-> SubSeq(e.buf, Len(b) + 1, Len(e.buf))])]

\* a marker that is bound: i++, the text before it is written, the callback
\* writes its token
BoundMarker(st, p) ==
    AfterEmit(st, p, st.buf \o SubSeq(st.sql, 1, p - 1),
              Emit(st.emit, st.buf \o SubSeq(st.sql, 1, p - 1), st.i + 1))

\* one pass through the body of the for loop, from its head
Iter(st) ==
    LET p == Index(st.sql)
    IN  IF p = 0 THEN AfterLoop(st, st.buf, "break")
        ELSE IF Len(From(st.sql, p)) > 1 /\ SubSeq(st.sql, p, p + 1) = <<Marker, Marker>>
        THEN EscapedPair(st, p)
        ELSE BoundMarker(st, p)

RECURSIVE RunLoop(_)
RunLoop(st) == IF st.pc = "done" THEN st ELSE RunLoop(Iter(st))

\* what replacePlaceholders returns from its final loop state
Returned(fin) == [sql |-> fin.out, err |-> fin.err]

\* PlaceholderFormat.ReplacePlaceholders(sql) of the dialect `kind`
ReplacePlaceholders(kind, text) == Returned(RunLoop(LoopStart(kind, text)))

(***************************************************************************)
(* Values the model's inputs are drawn from.                               *)
(***************************************************************************)
T_WHERE == <<" ", "W", "H", "E", "R", "E", " ">>
T_GROUPBY == <<" ", "G", "R", "O", "U", "P", " ", "B", "Y", " ">>
T_HAVING == <<" ", "H", "A", "V", "I", "N", "G", " ">>
T_ORDERBY == <<" ", "O", "R", "D", "E", "R", " ", "B", "Y", " ">>
T_LIMIT == <<" ", "L", "I", "M", "I", "T", " ">>
T_OFFSET == <<" ", "O", "F", "F", "S", "E", "T", " ">>
T_AND == <<" ", "A", "N", "D", " ">>
T_COMMA == <<",", " ">>
T_EQ == <<" ", "=", " ", "?">>

\* the lexical order of the one-letter column names used as mapping keys
ColumnOrder == <<"a", "b", "i", "k">>

\* a predicate as Where/Having receive it: the dynamic type of pred (kind) and
\* what it holds; ref names the Sqlizer a predicate of kind "Sqlizer" points to
Pred(kind, text, args, map, ref) ==
    [kind |-> kind, text |-> text, args |-> args, map |-> map, ref |-> ref]

P_nil == Pred("nil", <<>>, <<>>, {}, "")
P_str == Pred("string", <<"a", "=", "?">>, <<1>>, {}, "")
P_esc == Pred("string", <<"c", "?", "?", "d", "=", "?">>, <<3>>, {}, "")
P_map == Pred("map", <<>>, <<>>, {<<"k", 7>>, <<"i", 5>>}, "")
P_int == Pred("other", <<"i", "n", "t">>, <<>>, {}, "")
P_sub == Pred("Sqlizer", <<>>, <<>>, {}, "SubDollar")
P_subEsc == Pred("Sqlizer", <<>>, <<>>, {}, "SubEscaped")
P_subBad == Pred("Sqlizer", <<>>, <<>>, {}, "SubBad")
P_bool == Pred("other", <<"b", "o", "o", "l">>, <<>>, {}, "")
P_hav == Pred("string", <<"h", ">", "?">>, <<4>>, {}, "")

WherePreds == {P_nil, P_str, P_esc, P_map, P_int, P_sub, P_subEsc, P_subBad}
HavingPreds == {P_hav, P_int}
NameLists == {<< <<"g">> >>, << <<"x">>, <<"y">> >>}
Limits == {0, 10}

(***************************************************************************)
(* wherePart and WhereBuilder.                                             *)
(***************************************************************************)
NewWhereBuilder(format) ==
    [placeholderFormat |-> format,
     whereParts |-> <<>>, groupBys |-> <<>>, havingParts |-> <<>>, orderBys |-> <<>>,
     limit |-> 0, limitValid |-> FALSE, offset |-> 0, offsetValid |-> FALSE]

\* the WhereBuilders that predicates of kind "Sqlizer" point to
SubBuilder(ref) ==
    CASE ref = "SubDollar" ->
            [NewWhereBuilder("Dollar") EXCEPT
                !.whereParts = <<Pred("string", <<"b", "=", "?">>, <<2>>, {}, "")>>]
      [] ref = "SubEscaped" ->
            [NewWhereBuilder("Dollar") EXCEPT
                !.whereParts = <<Pred("string", <<"e", "?", "?", "f">>, <<>>, {}, "")>>]
      [] OTHER ->
            [NewWhereBuilder("Question") EXCEPT !.whereParts = <<P_bool>>]

Result(sql, args, err) == [sql |-> sql, args |-> args, err |-> err]

\* fmt.Errorf("expected string-keyed map or string, not %T", pred)
UnsupportedType(name) ==
    IF name = <<"i", "n", "t">> THEN "expected string-keyed map or string, not int"
    ELSE "expected string-keyed map or string, not bool"

\* the keys of a mapping in lexical order
SortedKeys(m) == SelectSeq(ColumnOrder, LAMBDA k : \E e \in m : e[1] = k)

MapValue(m, k) == (CHOOSE e \in m : e[1] = k)[2]

RECURSIVE EqParts(_, _)
EqParts(m, keys) ==
    IF keys = <<>> THEN <<>>
    ELSE <<Result(<<keys[1]>> \o T_EQ, <<MapValue(m, keys[1])>>, NoErr)>>
         \o EqParts(m, Tail(keys))

EqJoin(parts) ==
    Result(Join([k \in 1..Len(parts) |-> parts[k].sql], T_AND),
           Flatten([k \in 1..Len(parts) |-> parts[k].args]), NoErr)

\* Eq(m).ToSql(): "<column> = ?" per key, joined by " AND ", keys in lexical order
EqToSql(m) == EqJoin(EqParts(m, SortedKeys(m)))

RECURSIVE JoinRendered(_, _, _, _)
\* a Fragment Sequence: the rendered items joined by sep between successive
\* non-empty renders, args in item order, the first error ending it
JoinRendered(rs, sep, sql, args) ==
    IF rs = <<>> THEN Result(sql, args, NoErr)
    ELSE IF rs[1].err # NoErr THEN Result(<<>>, <<>>, rs[1].err)
    ELSE JoinRendered(Tail(rs), sep,
                      IF rs[1].sql = <<>> THEN sql
                      ELSE IF sql = <<>> THEN rs[1].sql
                      ELSE sql \o sep \o rs[1].sql,
                      args \o rs[1].args)

RECURSIVE WherePartToSql(_)
RECURSIVE WhereBuilderToSql(_)

\* appendToSql(parts, w, sep, args): what it writes to w, and what it returns
AppendToSql(parts, sep, args) ==
    JoinRendered([k \in 1..Len(parts) |-> WherePartToSql(parts[k])], sep, <<>>, args)

\* wherePart.ToSql
WherePartToSql(p) ==
    CASE p.kind = "nil"     -> Result(<<>>, <<>>, NoErr)
      [] p.kind = "Sqlizer" -> WhereBuilderToSql(SubBuilder(p.ref))
      [] p.kind = "map"     -> EqToSql(p.map)
      [] p.kind = "string"  -> Result(p.text, p.args, NoErr)
      [] OTHER              -> Result(<<>>, <<>>, UnsupportedType(p.text))

\* a clause written only when `present`: its keyword, then its body
Clause(present, keyword, body) == IF present THEN keyword \o body ELSE <<>>

\* ToSql's GROUP BY block
GroupByClause(b) == Clause(Len(b.groupBys) > 0, T_GROUPBY, Join(b.groupBys, T_COMMA))

\* ToSql's ORDER BY block
OrderByClause(b) == Clause(Len(b.orderBys) > 0, T_ORDERBY, Join(b.orderBys, T_COMMA))

\* the OFFSET block written before the LIMIT block
LimitOffsetClauses_Swapped(b) ==
    Clause(b.offsetValid, T_OFFSET, FormatUint(b.offset))
    \o Clause(b.limitValid, T_LIMIT, FormatUint(b.limit))

\* ToSql's LIMIT block, then its OFFSET block
LimitOffsetClauses(b) ==
    Clause(b.limitValid, T_LIMIT, FormatUint(b.limit))
    \o Clause(b.offsetValid, T_OFFSET, FormatUint(b.offset))

\* sqlStr, err = b.placeholderFormat.ReplacePlaceholders(sql.String()), with args
WithArgs(rp, args) == Result(rp.sql, args, rp.err)

\* WhereBuilder.ToSql after its HAVING block: an error of appendToSql returns at
\* once, with sqlStr still empty
ToSqlAfterHaving(b, whr, hav) ==
    IF hav.err # NoErr THEN Result(<<>>, hav.args, hav.err)
    ELSE WithArgs(ReplacePlaceholders(b.placeholderFormat,
                      Flatten(<<Clause(Len(b.whereParts) > 0, T_WHERE, whr.sql),
                                GroupByClause(b),
                                Clause(Len(b.havingParts) > 0, T_HAVING, hav.sql),
                                OrderByClause(b),
                                LimitOffsetClauses(b)>>)),
                  hav.args)

\* a ToSql that goes on after an error of the WHERE block
ToSqlAfterWhere_Swallows(b, whr) ==
    ToSqlAfterHaving(b, Result(<<>>, <<>>, NoErr),
        IF Len(b.havingParts) > 0
        THEN AppendToSql(b.havingParts, T_AND, <<>>)
        ELSE Result(<<>>, <<>>, NoErr))

\* WhereBuilder.ToSql after its WHERE block: an error of appendToSql returns at
\* once, with sqlStr still empty
ToSqlAfterWhere(b, whr) ==
    IF whr.err # NoErr THEN Result(<<>>, whr.args, whr.err)
    ELSE ToSqlAfterHaving(b, whr,
             IF Len(b.havingParts) > 0
             THEN AppendToSql(b.havingParts, T_AND, whr.args)
             ELSE Result(<<>>, whr.args, NoErr))

\* WhereBuilder.ToSql
WhereBuilderToSql(b) ==
    ToSqlAfterWhere(b, IF Len(b.whereParts) > 0
                       THEN AppendToSql(b.whereParts, T_AND, <<>>)
                       ELSE Result(<<>>, <<>>, NoErr))

\* Where(pred, args...)
Where(b, pred) == [b EXCEPT !.whereParts = Append(@, pred)]

\* GroupBy(groupBys...)
GroupBy(b, names) == [b EXCEPT !.groupBys = @ \o names]

\* Having(pred, rest...)
Having(b, pred) == [b EXCEPT !.havingParts = Append(@, pred)]

\* OrderBy(orderBys...)
OrderBy(b, names) == [b EXCEPT !.orderBys = @ \o names]

\* a Limit that takes zero for "not set"
Limit_ZeroUnsets(b, n) == [b EXCEPT !.limit = n, !.limitValid = (n > 0)]

\* Limit(limit)
Limit(b, n) == [b EXCEPT !.limit = n, !.limitValid = TRUE]

\* Offset(offset)
Offset(b, n) == [b EXCEPT !.offset = n, !.offsetValid = TRUE]

\* the builder as WhereBuilder.ToSql leaves it: ToSql assigns no field of b
WhereBuilderAfterToSql(b) == b

(***************************************************************************)
(* InsertBuilder.                                                          *)
(***************************************************************************)
T_INSERT == <<"I", "N", "S", "E", "R", "T", " ">>
T_INTO == <<"I", "N", "T", "O", " ">>
T_VALUES == <<"V", "A", "L", "U", "E", "S", " ">>
T_RETURNING == <<" ", "R", "E", "T", "U", "R", "N", "I", "N", "G", " ">>
T_AS == <<")", " ", "A", "S", " ">>
T_SPACE == <<" ">>

ErrNoTable == "insert statements must specify a table"
ErrNoValues == "insert statements must have at least one set of values or select clause"
ErrValuesNotSet == "values for insert statements are not set"
ErrSelectNotSet == "select clause for insert statements are not set"
ErrNoColumns == "select statements must have at least one result column"

\* a value of a row: a plain driver value, an expr, or another Sqlizer
Value(kind, v, text, args, ref) ==
    [kind |-> kind, v |-> v, text |-> text, args |-> args, ref |-> ref]

Plain(v) == Value("plain", v, <<>>, <<>>, "")

V_expr == Value("expr", 0, <<"n", "o", "w", "(", ")", "+", "?">>, <<8>>, "")
V_sub == Value("Sqlizer", 0, <<>>, <<>>, "SubDollar")
V_bad == Value("Sqlizer", 0, <<>>, <<>>, "SubBad")

\* Expr(sql, args...)
Expr(text, args) == [text |-> text, args |-> args]

E_prefix == Expr(<<"W", "I", "T", "H", " ", "p", " ", "A", "S", " ", "(", "?", ")">>, <<11>>)
E_suffix == Expr(<<"O", "N", " ", "D", "U", "P", "L", "I", "C", "A", "T", "E", " ", "?">>, <<12>>)

Rows == {<<Plain(1), Plain(2)>>, <<V_expr, V_sub>>, <<V_bad>>}
ColumnLists == {<< <<"c">> >>, << <<"n">>, <<"g">> >>}
InsertMaps == {{<<"a", Plain(1)>>, <<"b", Plain(2)>>}, {<<"k", V_expr>>}, {}}
SelectRefs == {"SelectOK", "SelectNoColumns"}

\* SelectBuilder.ToSql of the SelectBuilders the model's inputs point to
SelectToSql(ref) ==
    IF ref = "SelectOK"
    THEN Result(<<"S", "E", "L", "E", "C", "T", " ", "x", " ", "F", "R", "O", "M", " ", "s", " ", "W", "H", "E", "R", "E", " ", "y", " ", "=", " ", "?">>, <<9>>, NoErr)
    ELSE Result(<<>>, <<>>, ErrNoColumns)

\* ToSql of the Sqlizer a row value points to
SqlizerToSql(ref) ==
    IF ref \in SelectRefs THEN SelectToSql(ref) ELSE WhereBuilderToSql(SubBuilder(ref))

NewInsertBuilder(format) ==
    [placeholderFormat |-> format, returning |-> <<>>, prefixes |-> <<>>,
     options |-> <<>>, into |-> <<>>, columns |-> <<>>, values |-> <<>>,
     suffixes |-> <<>>, iselect |-> ""]

\* exprs.AppendToSql(w, sep, args): the text written to w and the args; a
\* Literal Fragment renders verbatim and cannot fail
ExprsAppendToSql(es, sep, args) ==
    Result(Join([k \in 1..Len(es) |-> es[k].text], sep),
           args \o Flatten([k \in 1..Len(es) |-> es[k].args]), NoErr)

Aliased(r, alias) ==
    IF r.err # NoErr THEN r
    ELSE Result(((<<"(">> \o r.sql) \o T_AS) \o alias, r.args, NoErr)

\* one item of the RETURNING list: a column, or an aliased subquery
ReturningItemToSql(item) ==
    IF item.ref = "" THEN Result(item.text, <<>>, NoErr)
    ELSE Aliased(SelectToSql(item.ref), item.text)

ReturningResult(r) ==
    IF r.err # NoErr THEN r ELSE Result(T_RETURNING \o r.sql, r.args, NoErr)

\* returning.AppendToSql(w, args)
ReturningAppendToSql(items, args) ==
    ReturningResult(JoinRendered([k \in 1..Len(items) |-> ReturningItemToSql(items[k])],
                                 T_COMMA, <<>>, args))

\* one value of a row in appendValuesToSQL: its text and args
RowValueToSql(val) ==
    CASE val.kind = "expr"    -> Result(val.text, val.args, NoErr)
      [] val.kind = "Sqlizer" -> SqlizerToSql(val.ref)
      [] OTHER                -> Result(<<Marker>>, <<val.v>>, NoErr)

\* the error of the first item that fails, NoErr if none does
FirstError(rs) ==
    IF \E k \in 1..Len(rs) : rs[k].err # NoErr
    THEN rs[CHOOSE k \in 1..Len(rs) :
                /\ rs[k].err # NoErr
                /\ \A j \in 1..(k - 1) : rs[j].err = NoErr].err
    ELSE NoErr

RowResult(rs) ==
    Result((<<"(">> \o Join([k \in 1..Len(rs) |-> rs[k].sql], <<",">>)) \o <<")">>,
           Flatten([k \in 1..Len(rs) |-> rs[k].args]),
           FirstError(rs))

\* the inner loop of appendValuesToSQL over one row: "(v1,v2,...)", the args of
\* its values in order, and the error of the first value that fails
RowToSql(row) == RowResult([k \in 1..Len(row) |-> RowValueToSql(row[k])])

ValuesResult(rs, args) ==
    IF FirstError(rs) # NoErr THEN Result(<<>>, <<>>, FirstError(rs))
    ELSE Result(T_VALUES \o Join([k \in 1..Len(rs) |-> rs[k].sql], <<",">>),
                args \o Flatten([k \in 1..Len(rs) |-> rs[k].args]), NoErr)

\* InsertBuilder.appendValuesToSQL: an error of a value returns nil, err
AppendValuesToSQL(b, args) ==
    IF Len(b.values) = 0 THEN Result(<<>>, args, ErrValuesNotSet)
    ELSE ValuesResult([k \in 1..Len(b.values) |-> RowToSql(b.values[k])], args)

SelectResult(r, args) ==
    IF r.err # NoErr THEN Result(<<>>, args, r.err)
    ELSE Result(r.sql, args \o r.args, NoErr)

\* InsertBuilder.appendSelectToSQL
AppendSelectToSQL(b, args) ==
    IF b.iselect = "" THEN Result(<<>>, args, ErrSelectNotSet)
    ELSE SelectResult(SelectToSql(b.iselect), args)

\* the two checks made in the other order
InsertValidate_RowsFirst(b) ==
    IF Len(b.values) = 0 /\ b.iselect = "" THEN ErrNoValues
    ELSE IF Len(b.into) = 0 THEN ErrNoTable
    ELSE NoErr

\* the two checks InsertBuilder.ToSql makes before it assembles anything
InsertValidate(b) ==
    IF Len(b.into) = 0 THEN ErrNoTable
    ELSE IF Len(b.values) = 0 /\ b.iselect = "" THEN ErrNoValues
    ELSE NoErr

\* the text ToSql writes before the VALUES clause or the subquery; the error
\* that prefixes.AppendToSql returns is dropped (args, _ = ...)
InsertHead(b, pre) ==
    Flatten(<<Clause(Len(b.prefixes) > 0, pre.sql, T_SPACE),
              T_INSERT,
              Clause(Len(b.options) > 0, Join(b.options, T_SPACE), T_SPACE),
              T_INTO, b.into, T_SPACE,
              Clause(Len(b.columns) > 0, <<"(">>, Join(b.columns, <<",">>) \o <<")", " ">>)>>)

\* InsertBuilder.ToSql from its suffixes on; the error that
\* suffixes.AppendToSql returns is dropped (args, _ = ...)
ToSqlSuffixes(b, sql, suf) ==
    WithArgs(ReplacePlaceholders(b.placeholderFormat,
                                 sql \o Clause(Len(b.suffixes) > 0, T_SPACE, suf.sql)),
             suf.args)

\* InsertBuilder.ToSql from the check of the RETURNING list's error on
ToSqlAfterReturning(b, sql, ret) ==
    IF ret.err # NoErr THEN Result(<<>>, ret.args, ret.err)
    ELSE ToSqlSuffixes(b, sql \o ret.sql, ExprsAppendToSql(b.suffixes, T_SPACE, ret.args))

\* InsertBuilder.ToSql from the check of the rows' or the subquery's error on
ToSqlAfterSource(b, head, src) ==
    IF src.err # NoErr THEN Result(<<>>, src.args, src.err)
    ELSE ToSqlAfterReturning(b, head \o src.sql,
             IF Len(b.returning) > 0
             THEN ReturningAppendToSql(b.returning, src.args)
             ELSE Result(<<>>, src.args, NoErr))

\* InsertBuilder.ToSql from the first write to its buffer on
ToSqlAfterPrefixes(b, pre) ==
    ToSqlAfterSource(b, InsertHead(b, pre),
        IF b.iselect # ""
        THEN AppendSelectToSQL(b, IF Len(b.prefixes) > 0 THEN pre.args ELSE <<>>)
        ELSE AppendValuesToSQL(b, IF Len(b.prefixes) > 0 THEN pre.args ELSE <<>>))

\* InsertBuilder.ToSql
InsertBuilderToSql(b) ==
    IF InsertValidate(b) # NoErr THEN Result(<<>>, <<>>, InsertValidate(b))
    ELSE ToSqlAfterPrefixes(b, ExprsAppendToSql(b.prefixes, T_SPACE, <<>>))

\* a ToSql that consumes the rows it rendered
InsertBuilderAfterToSql_ClearsValues(b) == [b EXCEPT !.values = <<>>]

\* the builder as InsertBuilder.ToSql leaves it: ToSql assigns no field of b
InsertBuilderAfterToSql(b) == b

\* Prefix(sql, args...)
Prefix(b, text, args) == [b EXCEPT !.prefixes = Append(@, Expr(text, args))]

\* Options(options...)
Options(b, options) == [b EXCEPT !.options = @ \o options]

\* Into(into)
Into(b, into) == [b EXCEPT !.into = into]

\* Columns(columns...)
Columns(b, columns) == [b EXCEPT !.columns = @ \o columns]

\* Values(values...)
Values(b, row) == [b EXCEPT !.values = Append(@, row)]

\* Returning(columns...)
Returning(b, columns) ==
    [b EXCEPT !.returning = @ \o [k \in 1..Len(columns) |-> [text |-> columns[k], ref |-> ""]]]

\* ReturningSelect(from, alias)
ReturningSelect(b, from, alias) ==
    [b EXCEPT !.returning = Append(@, [text |-> alias, ref |-> from])]

\* Suffix(sql, args...)
Suffix(b, text, args) == [b EXCEPT !.suffixes = Append(@, Expr(text, args))]

\* Select(sb)
Select(b, sb) == [b EXCEPT !.iselect = sb]

\* the orders in which a range over the mapping can visit its keys
KeyOrders(m) ==
    LET keys == {e[1] : e \in m}
        n == Cardinality(keys)
    IN  {o \in [1..n -> keys] : \A x, y \in 1..n : x # y => o[x] # o[y]}

\* a SetMap that extends the columns and rows it finds
SetMap_Extends(b, m, order) ==
    [b EXCEPT !.columns = @ \o [k \in 1..Len(order) |-> <<order[k]>>],
              !.values = Append(@, [k \in 1..Len(order) |-> MapValue(m, order[k])])]

\* SetMap(clauses), the range over clauses visiting its keys in `order`
SetMap(b, m, order) ==
    [b EXCEPT !.columns = [k \in 1..Len(order) |-> <<order[k]>>],
              !.values = << [k \in 1..Len(order) |-> MapValue(m, order[k])] >>]

(***************************************************************************)
(* The state machine.                                                      *)
(***************************************************************************)
\* the spec's scenario: "a = ? AND b = ??x ? c"
Scenario1 == <<"a", " ", "=", " ", "?", " ", "A", "N", "D", " ", "b", " ", "=", " ", "?", "?", "x", " ", "?", " ", "c">>

Texts == UNION {[1..n -> {Marker, "a"}] : n \in 0..MaxLen} \cup {Scenario1}

Call(op, pred, names, n) == [op |-> op, pred |-> pred, names |-> names, n |-> n]

NoResult == [n |-> 0, sql |-> <<>>, args |-> <<>>, err |-> NoErr]

IdleLoop == [LoopStart("Question", <<>>) EXCEPT !.pc = "idle"]

InitRewrite ==
    /\ live = "rewrite"
    /\ \E kind \in EmitKinds, text \in Texts : rw = LoopStart(kind, text)
    /\ wb = NewWhereBuilder("Question")

InitWhere ==
    /\ live = "where"
    /\ rw = IdleLoop
    /\ \E f \in Formats : wb = NewWhereBuilder(f)

InitInsert ==
    /\ live = "insert"
    /\ rw = IdleLoop
    /\ wb = NewWhereBuilder("Question")
    /\ \E f \in Formats : ib = NewInsertBuilder(f)

NoCall == [n |-> 0, op |-> "", map |-> {}, prev |-> NewInsertBuilder("Question")]

Init ==
    /\ \/ InitRewrite /\ ib = NewInsertBuilder("Question")
       \/ InitWhere /\ ib = NewInsertBuilder("Question")
       \/ InitInsert
    /\ wcalls = <<>>
    /\ wres = NoResult
    /\ twin = ib
    /\ icalls = NoCall
    /\ ires = NoResult

RewriteVars == <<live, rw>>
WhereVars == <<wb, wcalls, wres>>
InsertVars == <<ib, twin, icalls, ires>>

\* replacePlaceholders: the iteration that finds no marker and leaves the loop
RP_Break ==
    /\ live = "rewrite" /\ rw.pc = "loop"
    /\ Index(rw.sql) = 0
    /\ rw' = Iter(rw)
    /\ UNCHANGED <<live, WhereVars, InsertVars>>

\* replacePlaceholders: the iteration that finds an escaped pair
RP_Escaped ==
    /\ live = "rewrite" /\ rw.pc = "loop"
    /\ Index(rw.sql) > 0
    /\ Len(From(rw.sql, Index(rw.sql))) > 1
    /\ rw.sql[Index(rw.sql) + 1] = Marker
    /\ rw' = Iter(rw)
    /\ UNCHANGED <<live, WhereVars, InsertVars>>

\* replacePlaceholders: the iteration that finds a bound marker
RP_Marker ==
    /\ live = "rewrite" /\ rw.pc = "loop"
    /\ Index(rw.sql) > 0
    /\ ~(Len(From(rw.sql, Index(rw.sql))) > 1 /\ rw.sql[Index(rw.sql) + 1] = Marker)
    /\ rw' = Iter(rw)
    /\ UNCHANGED <<live, WhereVars, InsertVars>>

CanCallWhere == live = "where" /\ Len(wcalls) < MaxCalls

WB_Where ==
    /\ CanCallWhere
    /\ \E p \in WherePreds :
          /\ wb' = Where(wb, p)
          /\ wcalls' = Append(wcalls, Call("Where", p, <<>>, 0))
    /\ wres' = NoResult
    /\ UNCHANGED <<RewriteVars, InsertVars>>

WB_GroupBy ==
    /\ CanCallWhere
    /\ \E names \in NameLists :
          /\ wb' = GroupBy(wb, names)
          /\ wcalls' = Append(wcalls, Call("GroupBy", P_nil, names, 0))
    /\ wres' = NoResult
    /\ UNCHANGED <<RewriteVars, InsertVars>>

WB_Having ==
    /\ CanCallWhere
    /\ \E p \in HavingPreds :
          /\ wb' = Having(wb, p)
          /\ wcalls' = Append(wcalls, Call("Having", p, <<>>, 0))
    /\ wres' = NoResult
    /\ UNCHANGED <<RewriteVars, InsertVars>>

WB_OrderBy ==
    /\ CanCallWhere
    /\ \E names \in NameLists :
          /\ wb' = OrderBy(wb, names)
          /\ wcalls' = Append(wcalls, Call("OrderBy", P_nil, names, 0))
    /\ wres' = NoResult
    /\ UNCHANGED <<RewriteVars, InsertVars>>

WB_Limit ==
    /\ CanCallWhere
    /\ \E n \in Limits :
          /\ wb' = Limit(wb, n)
          /\ wcalls' = Append(wcalls, Call("Limit", P_nil, <<>>, n))
    /\ wres' = NoResult
    /\ UNCHANGED <<RewriteVars, InsertVars>>

WB_Offset ==
    /\ CanCallWhere
    /\ \E n \in Limits :
          /\ wb' = Offset(wb, n)
          /\ wcalls' = Append(wcalls, Call("Offset", P_nil, <<>>, n))
    /\ wres' = NoResult
    /\ UNCHANGED <<RewriteVars, InsertVars>>

\* ToSql, called at most twice between two mutator calls
WB_ToSql ==
    /\ live = "where" /\ wres.n < 2
    /\ LET r == WhereBuilderToSql(wb)
       IN  wres' = [n |-> wres.n + 1, sql |-> r.sql, args |-> r.args, err |-> r.err]
    /\ wb' = WhereBuilderAfterToSql(wb)
    /\ UNCHANGED <<wcalls, RewriteVars, InsertVars>>

CanCallInsert == live = "insert" /\ icalls.n < MaxInsCalls

\* a mutator call on ib: the twin is given the same call
Called(op, m) ==
    /\ icalls' = [n |-> icalls.n + 1, op |-> op, map |-> m, prev |-> ib]
    /\ ires' = NoResult
    /\ UNCHANGED <<RewriteVars, WhereVars>>

IB_Prefix ==
    /\ CanCallInsert
    /\ ib' = Prefix(ib, E_prefix.text, E_prefix.args)
    /\ twin' = Prefix(twin, E_prefix.text, E_prefix.args)
    /\ Called("Prefix", {})

IB_Options ==
    /\ CanCallInsert
    /\ ib' = Options(ib, << <<"I", "G", "N", "O", "R", "E">> >>)
    /\ twin' = Options(twin, << <<"I", "G", "N", "O", "R", "E">> >>)
    /\ Called("Options", {})

IB_Into ==
    /\ CanCallInsert
    /\ \E t \in {<<>>, <<"t">>} : ib' = Into(ib, t) /\ twin' = Into(twin, t)
    /\ Called("Into", {})

IB_Columns ==
    /\ CanCallInsert
    /\ \E cs \in ColumnLists : ib' = Columns(ib, cs) /\ twin' = Columns(twin, cs)
    /\ Called("Columns", {})

IB_Values ==
    /\ CanCallInsert
    /\ \E row \in Rows : ib' = Values(ib, row) /\ twin' = Values(twin, row)
    /\ Called("Values", {})

IB_Returning ==
    /\ CanCallInsert
    /\ ib' = Returning(ib, << <<"r">> >>)
    /\ twin' = Returning(twin, << <<"r">> >>)
    /\ Called("Returning", {})

IB_ReturningSelect ==
    /\ CanCallInsert
    /\ \E sb \in SelectRefs :
          /\ ib' = ReturningSelect(ib, sb, <<"z">>)
          /\ twin' = ReturningSelect(twin, sb, <<"z">>)
    /\ Called("ReturningSelect", {})

IB_Suffix ==
    /\ CanCallInsert
    /\ ib' = Suffix(ib, E_suffix.text, E_suffix.args)
    /\ twin' = Suffix(twin, E_suffix.text, E_suffix.args)
    /\ Called("Suffix", {})

IB_Select ==
    /\ CanCallInsert
    /\ \E sb \in SelectRefs : ib' = Select(ib, sb) /\ twin' = Select(twin, sb)
    /\ Called("Select", {})

\* SetMap: each builder's range over the mapping takes an order of its own
IB_SetMap ==
    /\ CanCallInsert
    /\ \E m \in InsertMaps :
          /\ \E o \in KeyOrders(m) : ib' = SetMap(ib, m, o)
          /\ \E o \in KeyOrders(m) : twin' = SetMap(twin, m, o)
          /\ Called("SetMap", m)

\* ToSql, called at most twice between two mutator calls
IB_ToSql ==
    /\ live = "insert" /\ ires.n < 2
    /\ LET r == InsertBuilderToSql(ib)
       IN  ires' = [n |-> ires.n + 1, sql |-> r.sql, args |-> r.args, err |-> r.err]
    /\ ib' = InsertBuilderAfterToSql(ib)
    /\ twin' = InsertBuilderAfterToSql(twin)
    /\ UNCHANGED <<icalls, RewriteVars, WhereVars>>

Next ==
    \/ RP_Break \/ RP_Escaped \/ RP_Marker
    \/ WB_Where \/ WB_GroupBy \/ WB_Having \/ WB_OrderBy \/ WB_Limit \/ WB_Offset
    \/ WB_ToSql
    \/ IB_Prefix \/ IB_Options \/ IB_Into \/ IB_Columns \/ IB_Values
    \/ IB_Returning \/ IB_ReturningSelect \/ IB_Suffix \/ IB_Select \/ IB_SetMap
    \/ IB_ToSql

Spec == Init /\ [][Next]_vars

\* the rewriter alone, its loop running until it returns
RewriteNext == RP_Break \/ RP_Escaped \/ RP_Marker

RewriteInit == Init /\ live = "rewrite"

RewriteSpec ==
    /\ RewriteInit
    /\ [][RewriteNext]_vars
    /\ WF_vars(RewriteNext)

(***************************************************************************)
(* Properties.                                                             *)
(***************************************************************************)
RECURSIVE Unescaped(_)
\* the number of markers of a text that are not part of an escaped pair
Unescaped(t) ==
    IF t = <<>> THEN 0
    ELSE IF t[1] # Marker THEN Unescaped(Tail(t))
    ELSE IF Len(t) >= 2 /\ t[2] = Marker THEN Unescaped(From(t, 3))
    ELSE 1 + Unescaped(Tail(t))

RECURSIVE EscapedPairs(_)
\* the number of escaped pairs of a text
EscapedPairs(t) ==
    IF t = <<>> THEN 0
    ELSE IF t[1] # Marker THEN EscapedPairs(Tail(t))
    ELSE IF Len(t) >= 2 /\ t[2] = Marker THEN 1 + EscapedPairs(From(t, 3))
    ELSE EscapedPairs(Tail(t))

RECURSIVE Substituted(_, _, _)
\* t with each escaped pair replaced by one marker and the unescaped marker
\* number n + j replaced by toks[n + j]
Substituted(t, toks, n) ==
    IF t = <<>> THEN <<>>
    ELSE IF t[1] # Marker THEN <<t[1]>> \o Substituted(Tail(t), toks, n)
    ELSE IF Len(t) >= 2 /\ t[2] = Marker
         THEN <<Marker>> \o Substituted(From(t, 3), toks, n)
    ELSE toks[n + 1] \o Substituted(Tail(t), toks, n + 1)

\* C1: replacePlaceholders calls emit with the indices 1, 2, ... in order, never
\* more often than the text has unescaped markers; when it returns without an
\* error of emit, it has called emit once per unescaped marker and its output is
\* the input with every escaped pair replaced by one "?" and the i-th unescaped
\* marker replaced by the token of the i-th call, all else unchanged; a text
\* with no "?" comes back unchanged with emit never called; the indexed dialect's
\* token is "$i" and the fixed one's is "?".
C1_RewriterContract ==
    live = "rewrite" =>
        /\ \A j \in 1..Len(rw.calls) : rw.calls[j].idx = j
        /\ Len(rw.calls) <= Unescaped(rw.text)
        /\ \A j \in 1..Len(rw.calls) :
              /\ rw.emit = "Dollar" => rw.calls[j].tok = <<"$">> \o FormatUint(j)
              /\ rw.emit = "Question" => rw.calls[j].tok = <<Marker>>
        /\ (rw.pc = "done" /\ rw.err = NoErr) =>
              /\ Len(rw.calls) = Unescaped(rw.text)
              /\ rw.out = Substituted(rw.text, [j \in 1..Len(rw.calls) |-> rw.calls[j].tok], 0)
              /\ (\A k \in 1..Len(rw.text) : rw.text[k] # Marker) =>
                    (rw.out = rw.text /\ rw.calls = <<>>)
              /\ Unescaped(rw.text) = 0 => rw.calls = <<>>

\* the spec's scenario 1 has been rewritten with the indexed dialect
C1_Witness ==
    /\ live = "rewrite" /\ rw.pc = "done" /\ rw.emit = "Dollar"
    /\ rw.text = Scenario1
    /\ rw.out = <<"a", " ", "=", " ", "$", "1", " ", "A", "N", "D", " ", "b", " ", "=", " ", "?", "x", " ", "$", "2", " ", "c">>
    /\ Len(rw.calls) = 2

\* C10: every iteration of the scan that stays in the loop shortens the
\* remaining text, by at least one character past a bound marker and by at
\* least two past an escaped pair; the iterations that find a marker never
\* outnumber the characters of the input; and the scan returns, by finding no
\* further marker or by an error of emit.
C10_ScanTerminates ==
    /\ [](rw.iters <= Len(rw.text))
    /\ [](rw.pc = "loop" => rw.iters + Len(rw.sql) <= Len(rw.text))
    /\ [][(rw.pc = "loop" /\ rw'.pc = "loop") =>
            /\ Len(rw'.sql) < Len(rw.sql)
            /\ rw'.branch = "pair" => Len(rw'.sql) <= Len(rw.sql) - 2]_vars
    /\ <>(rw.pc = "done")

\* a scan that an error of emit ended in its second iteration, after an
\* escaped pair
C10_Witness ==
    /\ live = "rewrite" /\ rw.pc = "done" /\ rw.err # NoErr
    /\ rw.iters = 2 /\ rw.buf = <<Marker>> /\ Len(rw.text) = 3

\* the calls of one mutator made on wb, in the order they were made
CallsOf(op) == SelectSeq(wcalls, LAMBDA c : c.op = op)

Last(q) == q[Len(q)]

EndsWith(t, q) == Len(t) >= Len(q) /\ SubSeq(t, Len(t) - Len(q) + 1, Len(t)) = q

\* ToSql has been called since the last mutator call
WhereRendered == live = "where" /\ wres.n >= 1

InsertRendered == live = "insert" /\ ires.n >= 1

\* the LIMIT and OFFSET clauses the history of calls asks for
LimitAsked ==
    IF CallsOf("Limit") # <<>>
    THEN T_LIMIT \o FormatUint(Last(CallsOf("Limit")).n) ELSE <<>>

OffsetAsked ==
    IF CallsOf("Offset") # <<>>
    THEN T_OFFSET \o FormatUint(Last(CallsOf("Offset")).n) ELSE <<>>

\* C3: a validity flag is set exactly when its setter has been called at
\* least once (so no mutator clears it), and a ToSql that succeeds ends its
\* text with " LIMIT <n>" exactly when Limit was called, n the value of the most
\* recent call, zero included, followed by " OFFSET <n>" exactly when Offset
\* was called; neither keyword occurs anywhere else in the text.
C3_LimitOffsetFlags ==
    live = "where" =>
        /\ wb.limitValid <=> CallsOf("Limit") # <<>>
        /\ wb.offsetValid <=> CallsOf("Offset") # <<>>
        /\ (WhereRendered /\ wres.err = NoErr) =>
              /\ EndsWith(wres.sql, LimitAsked \o OffsetAsked)
              /\ ~Contains(SubSeq(wres.sql, 1, Len(wres.sql) - Len(LimitAsked \o OffsetAsked)),
                           T_LIMIT)
              /\ ~Contains(SubSeq(wres.sql, 1, Len(wres.sql) - Len(LimitAsked \o OffsetAsked)),
                           T_OFFSET)

\* Limit(10) then Limit(0), Offset never called: the text is " LIMIT 0"
C3_Witness ==
    /\ WhereRendered /\ wres.err = NoErr
    /\ Len(CallsOf("Limit")) = 2 /\ CallsOf("Limit")[1].n = 10 /\ CallsOf("Limit")[2].n = 0
    /\ CallsOf("Offset") = <<>>
    /\ wres.sql = <<" ", "L", "I", "M", "I", "T", " ", "0">>

\* the predicates and names given to one mutator, in call order
PredsOf(op) == [k \in 1..Len(CallsOf(op)) |-> CallsOf(op)[k].pred]

NamesOf(op) == Flatten([k \in 1..Len(CallsOf(op)) |-> CallsOf(op)[k].names])

\* the predicates given to one mutator, rendered and joined in call order
JoinedPreds(op) ==
    JoinRendered([k \in 1..Len(PredsOf(op)) |-> WherePartToSql(PredsOf(op)[k])],
                 T_AND, <<>>, <<>>)

\* the clauses the history of calls asks for, in the fixed order
ClausesAsked ==
    Flatten(<<Clause(CallsOf("Where") # <<>>, T_WHERE, JoinedPreds("Where").sql),
              Clause(NamesOf("GroupBy") # <<>>, T_GROUPBY, Join(NamesOf("GroupBy"), T_COMMA)),
              Clause(CallsOf("Having") # <<>>, T_HAVING, JoinedPreds("Having").sql),
              Clause(NamesOf("OrderBy") # <<>>, T_ORDERBY, Join(NamesOf("OrderBy"), T_COMMA)),
              LimitAsked, OffsetAsked>>)

\* C5: whatever the order of the mutator calls, a ToSql that succeeds returns
\* the clauses in the order WHERE, GROUP BY, HAVING, ORDER BY, LIMIT, OFFSET, a
\* clause being there exactly when its mutator was called, the items of a clause
\* in call order, and the args are those of the WHERE predicates in call order
\* followed by those of the HAVING predicates; with no call made the text and
\* the args are empty.
C5_FixedClauseOrder ==
    WhereRendered =>
        /\ wres.err = NoErr =>
              /\ wres.sql = ReplacePlaceholders(wb.placeholderFormat, ClausesAsked).sql
              /\ wres.args = JoinedPreds("Where").args \o JoinedPreds("Having").args
        /\ wcalls = <<>> => (wres.sql = <<>> /\ wres.args = <<>> /\ wres.err = NoErr)

\* Limit, then GroupBy, then Where were called: the text has them in clause order
C5_Witness ==
    /\ WhereRendered /\ wres.err = NoErr
    /\ Len(wcalls) = 3
    /\ wcalls[1].op = "Limit" /\ wcalls[2].op = "GroupBy" /\ wcalls[3].op = "Where"
    /\ wres.sql = <<" ", "W", "H", "E", "R", "E", " ", "i", " ", "=", " ", "?", " ", "A", "N", "D", " ", "k", " ", "=", " ", "?", " ", "G", "R", "O", "U", "P", " ", "B", "Y", " ", "x", ",", " ", "y", " ", "L", "I", "M", "I", "T", " ", "1", "0">>
    /\ wres.args = <<5, 7>>

\* the error of the first part of wb that fails to render, in ToSql's order
WhereFailure ==
    FirstError([k \in 1..Len(wb.whereParts) |-> WherePartToSql(wb.whereParts[k])]
               \o [k \in 1..Len(wb.havingParts) |-> WherePartToSql(wb.havingParts[k])])

\* the error of the first part of ib that fails to render, in ToSql's order
InsertFailure ==
    FirstError((IF ib.iselect # "" THEN <<SelectToSql(ib.iselect)>>
                ELSE Flatten([r \in 1..Len(ib.values) |->
                        [k \in 1..Len(ib.values[r]) |-> RowValueToSql(ib.values[r][k])]]))
               \o [k \in 1..Len(ib.returning) |-> ReturningItemToSql(ib.returning[k])])

C2_InsertValidation ==
    InsertRendered =>
        /\ ib.into = <<>> =>
              (ires.err = ErrNoTable /\ ires.sql = <<>> /\ ires.args = <<>>)
        /\ (ib.into # <<>> /\ ib.values = <<>> /\ ib.iselect = "") =>
              (ires.err = ErrNoValues /\ ires.sql = <<>> /\ ires.args = <<>>)

\* no table, no row, no subquery, but a prefix and a suffix with args
C2_Witness ==
    /\ InsertRendered
    /\ ib.into = <<>> /\ ib.values = <<>> /\ ib.iselect = ""
    /\ ib.prefixes # <<>> /\ ib.suffixes # <<>>
    /\ ires.err = ErrNoTable

\* C7: right after SetMap(m) the builder has the keys of m as its columns, each
\* once, and one row whose i-th value is m's value of the i-th column; nothing
\* else of the columns and rows it had is left, and every other slot is as it
\* was before the call.
C7_SetMapReplaces ==
    (live = "insert" /\ icalls.op = "SetMap") =>
        LET m    == icalls.map
            keys == {e[1] : e \in m}
        IN  /\ Len(ib.columns) = Cardinality(keys)
            /\ {ib.columns[k] : k \in 1..Len(ib.columns)} = {<<x>> : x \in keys}
            /\ Len(ib.values) = 1
            /\ Len(ib.values[1]) = Cardinality(keys)
            /\ \A k \in 1..Len(ib.columns) :
                  ib.values[1][k] = MapValue(m, ib.columns[k][1])
            /\ ib.prefixes = icalls.prev.prefixes
            /\ ib.options = icalls.prev.options
            /\ ib.into = icalls.prev.into
            /\ ib.iselect = icalls.prev.iselect
            /\ ib.returning = icalls.prev.returning
            /\ ib.suffixes = icalls.prev.suffixes
            /\ ib.placeholderFormat = icalls.prev.placeholderFormat

\* SetMap with two keys on a builder that had columns and a row
C7_Witness ==
    /\ live = "insert" /\ icalls.op = "SetMap"
    /\ Cardinality(icalls.map) = 2
    /\ Len(icalls.prev.columns) = 2 /\ Len(icalls.prev.values) = 1
    /\ icalls.prev.columns # ib.columns

C6_SetMapDeterministic ==
    live = "insert" =>
        /\ icalls.op = "SetMap" =>
              ib.columns = [k \in 1..Len(SortedKeys(icalls.map)) |->
                                <<SortedKeys(icalls.map)[k]>>]
        /\ ib = twin
        /\ InsertBuilderToSql(ib) = InsertBuilderToSql(twin)

IsDigit(c) == \E d \in 1..10 : DigitChars[d] = c

DigitValue(c) == (CHOOSE d \in 1..10 : DigitChars[d] = c) - 1

RECURSIVE LeadingDigits(_)
LeadingDigits(t) ==
    IF t # <<>> /\ IsDigit(t[1]) THEN 1 + LeadingDigits(Tail(t)) ELSE 0

RECURSIVE ParseUint(_, _)
ParseUint(ds, acc) ==
    IF ds = <<>> THEN acc ELSE ParseUint(Tail(ds), 10 * acc + DigitValue(ds[1]))

RECURSIVE DollarTokens(_)
\* the numbers of the "$N" tokens of a text, left to right
DollarTokens(t) ==
    IF t = <<>> THEN <<>>
    ELSE IF t[1] = "$" /\ LeadingDigits(Tail(t)) > 0
         THEN <<ParseUint(SubSeq(t, 2, 1 + LeadingDigits(Tail(t))), 0)>>
              \o DollarTokens(From(t, 2 + LeadingDigits(Tail(t))))
    ELSE DollarTokens(Tail(t))

Count(t, c) == Cardinality({k \in 1..Len(t) : t[k] = c})

RECURSIVE PairsWritten(_)
\* the escaped pairs written in the raw fragments of a list of predicates,
\* those of the builders nested in it included
PairsWritten(preds) ==
    IF preds = <<>> THEN 0
    ELSE (CASE preds[1].kind = "string" -> EscapedPairs(preds[1].text)
            [] preds[1].kind = "Sqlizer" ->
                  PairsWritten(SubBuilder(preds[1].ref).whereParts
                               \o SubBuilder(preds[1].ref).havingParts)
            [] OTHER -> 0)
         + PairsWritten(Tail(preds))

RECURSIVE Balanced(_)
\* every raw fragment has as many unescaped markers as bound arguments
Balanced(preds) ==
    IF preds = <<>> THEN TRUE
    ELSE /\ CASE preds[1].kind = "string" ->
                    Unescaped(preds[1].text) = Len(preds[1].args)
              [] preds[1].kind = "Sqlizer" ->
                    Balanced(SubBuilder(preds[1].ref).whereParts
                             \o SubBuilder(preds[1].ref).havingParts)
              [] OTHER -> TRUE
         /\ Balanced(Tail(preds))

\* C9: when every raw fragment has as many unescaped markers as arguments, the
\* text of a ToSql that succeeds has one parameter token per argument, the
\* indexed dialect numbering them 1..n in order, and one literal "?" per escaped
\* pair written in a fragment, nested builders included.
C9_MarkersMatchArgs ==
    (WhereRendered /\ wres.err = NoErr /\ Balanced(wb.whereParts \o wb.havingParts)) =>
        /\ wb.placeholderFormat = "Dollar" =>
              /\ DollarTokens(wres.sql) = [k \in 1..Len(wres.args) |-> k]
              /\ Count(wres.sql, Marker) = PairsWritten(wb.whereParts \o wb.havingParts)
        /\ wb.placeholderFormat = "Question" =>
              Count(wres.sql, Marker) + Len(DollarTokens(wres.sql))
                 = Len(wres.args) + PairsWritten(wb.whereParts \o wb.havingParts)

=============================================================================
